---- MODULE Spec2Model ----
(***************************************************************************)
(* Trail reconstruction engine of the hiking-app data pipeline:            *)
(*   data/utils/osm_utils.py    extract_nodes_from_osm_data,               *)
(*                              extract_ways_from_osm_data,                *)
(*                              filter_trail_ways, get_trail_name,         *)
(*                              estimate_trail_difficulty                  *)
(*   data/utils/graph_utils.py  create_graph_from_osm_elements,            *)
(*                              find_connected_components, find_endpoints, *)
(*                              find_path_between_endpoints,               *)
(*                              create_trail_from_path,                    *)
(*                              decompose_complex_network,                 *)
(*                              reconstruct_trails                         *)
(*   data/reconstruct_trails.py process_county (lines 115-191)             *)
(*                                                                         *)
(* Coordinates: every point lies on the meridian lon = 0 and its latitude  *)
(* is a whole number of units of 180 / (3956 * pi) degrees, so that the    *)
(* haversine distance of two points is exactly |lat1 - lat2| miles.        *)
(* A dict is a function or a sequence in insertion order; a tag mapping is *)
(* a set of <<key, value>> pairs with one pair per key.                    *)
(***************************************************************************)
EXTENDS Integers, Sequences, FiniteSets, TLC

\* ---------------------------------------------------------------- bounds
\* Point identities of the topology inputs are 1..NumNodes.
NumNodes == 5
\* The topology inputs have at most MaxEdges two-point segments.
MaxEdges == 5
\* Latitudes are 0..MaxLat degrees.
MaxLat == 2
\* The pair caps tried are 0..MaxCap and the default.
MaxCap == 3
\* The tag inputs are a line of TagWays two-point segments.
TagWays == 3
\* The difficulty inputs are one segment of 0..MaxMiles miles.
MaxMiles == 6
\* The filter inputs are a line of FilterWays two-point segments.
FilterWays == 2
\* The extraction inputs have ExtractPoints point elements.
ExtractPoints == 3
\* Point identities of the build inputs are 1..BuildIds.
BuildIds == 3
\* The build inputs have at most BuildWays segments ...
BuildWays == 2
\* ... of at most BuildWayLen point references each.
BuildWayLen == 3

\* decompose_complex_network(G, max_pairs=10000)
DefaultMaxPairs == 10000

\* element.get(key) of an element without the key, and the None of a length
\* that is not supplied
None == -1

VARIABLES
    osm_data,    \* process_county: osm_data['elements'], the raw elements
    nodes,       \* process_county: nodes, the points mapping (id -> lat, lon)
    ways,        \* process_county: ways, the extracted segments, in dict order
    max_pairs,   \* the pair cap handed to decompose_complex_network
    pc,          \* position in process_county / reconstruct_trails
    trail_ways,  \* process_county: trail_ways = filter_trail_ways(ways)
    G,           \* create_graph_from_osm_elements: G
    wi,          \* index in trail_ways of the next segment of the build loop
    components,  \* reconstruct_trails: components
    ci,          \* index of the next component of the loop of reconstruct_trails
    trails,      \* reconstruct_trails: trails
    report,      \* per decomposed component: what decompose_complex_network
                 \* computed and logged
    processed_trails,  \* process_county: processed_trails
    trail_points       \* process_trail_points: trail_points

vars == <<osm_data, nodes, ways, max_pairs, pc, trail_ways, G, wi, components, ci,
          trails, report, processed_trails, trail_points>>

\* ---------------------------------------------------------------- helpers
Abs(x) == IF x < 0 THEN -x ELSE x

Min(S) == CHOOSE x \in S : \A y \in S : x <= y

Range(s) == {s[i] : i \in 1..Len(s)}

RECURSIVE SumSeq(_)
SumSeq(s) == IF s = <<>> THEN 0 ELSE Head(s) + SumSeq(Tail(s))

\* sorted(S) for a set of integers
RECURSIVE Sorted(_)
Sorted(S) == IF S = {} THEN <<>> ELSE <<Min(S)>> \o Sorted(S \ {Min(S)})

\* dict.get(key) on a tag mapping; "" stands for None (both are falsy)
TagKeys(tags) == {p[1] : p \in tags}
TagGet(tags, k) == IF k \in TagKeys(tags) THEN (CHOOSE p \in tags : p[1] = k)[2] ELSE ""

\* dict.update: the pairs of new replace those of old with the same key
TagUpdate(old, new) == {p \in old : p[1] \notin TagKeys(new)} \cup new

\* ---------------------------------------------------------------- spatial_utils
\* haversine(lon1, lat1, lon2, lat2) for two points of the meridian lon1 = lon2
haversine(lon1, lat1, lon2, lat2) == Abs(lat1 - lat2)

\* radians(None) raises TypeError
HaversineRaises(lon1, lat1, lon2, lat2) == None \in {lon1, lat1, lon2, lat2}

\* simplify_geometry(geometry) = geometry.simplify(0.0001): every result the
\* simplification of a line can have, a subsequence of its coordinates that
\* keeps both ends and drops a coordinate only when it lies within the
\* tolerance (less than one unit) of the line between the kept coordinates
\* around it, which on the meridian means between their latitudes
RECURSIVE Subseqs(_)
Subseqs(s) ==
    IF s = <<>> THEN {<<>>}
    ELSE LET rest == Subseqs(Tail(s))
         IN rest \cup {<<Head(s)>> \o r : r \in rest}

simplify_geometry(coordinates) ==
    LET n == Len(coordinates)
        lat(i) == coordinates[i][2]
        ok(keep) ==
            /\ keep # <<>> /\ keep[1] = 1 /\ keep[Len(keep)] = n
            /\ \A k \in 1..(Len(keep) - 1) : \A i \in (keep[k] + 1)..(keep[k + 1] - 1) :
                   /\ Min({lat(keep[k]), lat(keep[k + 1])}) <= lat(i)
                   /\ lat(i) <= Min({lat(keep[k]), lat(keep[k + 1])})
                                 + Abs(lat(keep[k]) - lat(keep[k + 1]))
    IN {[k \in 1..Len(keep) |-> coordinates[keep[k]]] :
            keep \in {x \in Subseqs([i \in 1..n |-> i]) : ok(x)}}

\* ---------------------------------------------------------------- osm_utils
\* A raw element is [type, id, lat, lon] for a point and [type, id, nodes,
\* tags] for a segment; a key the element lacks has the value None.

\* "if node_id:" / "if way_id:" / "if length_miles:"
Truthy(x) == x \notin {None, 0}

\* extract_nodes_from_osm_data: nodes[node_id] = {lat, lon, tags} for every
\* point element with a truthy id, the last element of an id giving its
\* value. The order of the mapping is the order of the ids, which every input
\* lists in ascending order; the tags of a point are read nowhere.
extract_nodes_from_osm_data(elements) ==
    LET at == {i \in 1..Len(elements) :
                   elements[i].type = "node" /\ Truthy(elements[i].id)}
        last(n) == CHOOSE i \in at :
                       elements[i].id = n /\ \A j \in at : elements[j].id = n => j <= i
    IN [n \in {elements[i].id : i \in at} |->
            [lat |-> elements[last(n)].lat, lon |-> elements[last(n)].lon]]

\* ways[way_id] = ...: the value of a key the dict has is replaced in place, a
\* new key is appended
DictSet(d, item) ==
    IF \E i \in 1..Len(d) : d[i].id = item.id
    THEN [i \in 1..Len(d) |-> IF d[i].id = item.id THEN item ELSE d[i]]
    ELSE Append(d, item)

\* extract_ways_from_osm_data, from element i on: the segments in dict order
RECURSIVE ExtractWays(_, _, _)
ExtractWays(elements, i, acc) ==
    IF i > Len(elements) THEN acc
    ELSE IF elements[i].type = "way" /\ Truthy(elements[i].id)
         THEN ExtractWays(elements, i + 1,
                          DictSet(acc, [id |-> elements[i].id,
                                        nodes |-> elements[i].nodes,
                                        tags |-> elements[i].tags]))
         ELSE ExtractWays(elements, i + 1, acc)

extract_ways_from_osm_data(elements) == ExtractWays(elements, 1, <<>>)

\* faulty variant: the foot tag is not consulted
IsTrailWayNoFoot(way) ==
    \/ TagGet(way.tags, "highway") \in {"path", "footway", "track"}
    \/ TagGet(way.tags, "route") = "hiking"

IsTrailWay(way) ==
    \/ TagGet(way.tags, "highway") \in {"path", "footway", "track"}
    \/ TagGet(way.tags, "route") = "hiking"
    \/ TagGet(way.tags, "foot") = "yes"

filter_trail_ways(ws) == SelectSeq(ws, IsTrailWay)

\* str(k) of a natural number
Digits == <<"0", "1", "2", "3", "4", "5", "6", "7", "8", "9">>
RECURSIVE Str(_)
Str(k) == IF k < 10 THEN Digits[k + 1] ELSE Str(k \div 10) \o Digits[(k % 10) + 1]

\* faulty variant: the ref tag is preferred to the name tag
GetTrailNameRefFirst(tags, way_id) ==
    IF TagGet(tags, "ref") # "" THEN "Trail " \o TagGet(tags, "ref")
    ELSE IF TagGet(tags, "name") # "" THEN TagGet(tags, "name")
    ELSE IF Truthy(way_id) THEN "Trail " \o Str(way_id)
    ELSE "Unnamed Trail"

\* get_trail_name(tags, way_id)
get_trail_name(tags, way_id) ==
    IF TagGet(tags, "name") # "" THEN TagGet(tags, "name")
    ELSE IF TagGet(tags, "ref") # "" THEN "Trail " \o TagGet(tags, "ref")
    ELSE IF Truthy(way_id) THEN "Trail " \o Str(way_id)
    ELSE "Unnamed Trail"

\* the three tag rules of estimate_trail_difficulty
SacScaleRule(v) ==
    IF v \in {"hiking", "mountain_hiking"} THEN "Easy"
    ELSE IF v \in {"demanding_mountain_hiking", "alpine_hiking"} THEN "Moderate"
    ELSE "Hard"
VisibilityRule(v) ==
    IF v \in {"excellent", "good"} THEN "Easy"
    ELSE IF v = "intermediate" THEN "Moderate"
    ELSE "Hard"
SurfaceRule(v) ==
    IF v \in {"paved", "asphalt", "concrete", "paving_stones"} THEN "Easy"
    ELSE IF v \in {"gravel", "fine_gravel", "compacted"} THEN "Easy"
    ELSE IF v \in {"dirt", "earth", "grass"} THEN "Moderate"
    ELSE "Hard"
LengthRule(length_miles) ==
    IF length_miles < 2 THEN "Easy"
    ELSE IF length_miles < 5 THEN "Moderate"
    ELSE "Hard"

\* faulty variant: the surface tag is consulted before the visibility tag
EstimateSurfaceFirst(tags, length_miles) ==
    IF TagGet(tags, "sac_scale") # "" THEN SacScaleRule(TagGet(tags, "sac_scale"))
    ELSE IF TagGet(tags, "surface") # "" THEN SurfaceRule(TagGet(tags, "surface"))
    ELSE IF TagGet(tags, "trail_visibility") # ""
         THEN VisibilityRule(TagGet(tags, "trail_visibility"))
    ELSE IF Truthy(length_miles) THEN LengthRule(length_miles)
    ELSE "Moderate"

\* estimate_trail_difficulty(tags, length_miles): "if sac_scale:" and the like
\* take a missing tag and an empty value alike, "if length_miles:" takes a
\* missing length and the length 0 alike
estimate_trail_difficulty(tags, length_miles) ==
    IF TagGet(tags, "sac_scale") # "" THEN SacScaleRule(TagGet(tags, "sac_scale"))
    ELSE IF TagGet(tags, "trail_visibility") # ""
         THEN VisibilityRule(TagGet(tags, "trail_visibility"))
    ELSE IF TagGet(tags, "surface") # "" THEN SurfaceRule(TagGet(tags, "surface"))
    ELSE IF Truthy(length_miles) THEN LengthRule(length_miles)
    ELSE "Moderate"

\* ---------------------------------------------------------------- graph
\* networkx.Graph: node -> attributes, edge {u, v} -> attributes; an edge {u}
\* is a self-loop.
EmptyGraph == [node |-> <<>>, edge |-> <<>>]

NodeSet(g) == DOMAIN g.node
EdgeSet(g) == DOMAIN g.edge

\* faulty variant: the last point of the mapping is left out
AddNodesButLast(ns) ==
    [node |-> [n \in {m \in DOMAIN ns : \E x \in DOMAIN ns : x > m} |-> ns[n]],
     edge |-> <<>>]

\* lines 26-30: G.add_node(node_id, **node_data) for every item of nodes
AddAllNodes(ns) == [node |-> ns, edge |-> <<>>]

\* faulty variant: adding an edge forgets the edges added before
AddEdgeForgetful(g, u, v, distance, way_id, tags) ==
    [node |-> [n \in NodeSet(g) \cup {u, v} |-> IF n \in NodeSet(g) THEN g.node[n] ELSE <<>>],
     edge |-> [x \in {{u, v}} |-> [distance |-> distance, way_id |-> way_id, tags |-> tags]]]

\* G.add_edge(u, v, distance=, way_id=, **tags): a node the graph lacks is added
\* without attributes; the attributes of an edge that exists already are
\* updated, not replaced
AddEdge(g, u, v, distance, way_id, tags) ==
    LET e == {u, v}
        attr == IF e \in EdgeSet(g)
                THEN [distance |-> distance, way_id |-> way_id,
                      tags |-> TagUpdate(g.edge[e].tags, tags)]
                ELSE [distance |-> distance, way_id |-> way_id, tags |-> tags]
    IN [node |-> [n \in NodeSet(g) \cup e |-> IF n \in NodeSet(g) THEN g.node[n] ELSE <<>>],
        edge |-> [x \in EdgeSet(g) \cup {e} |-> IF x = e THEN attr ELSE g.edge[x]]]

\* a segment tag named like a keyword argument of the add_edge call raises
\* TypeError (multiple values for keyword argument)
KeywordClash(tags) == TagKeys(tags) \cap {"distance", "way_id"} # {}

\* faulty variant: a pair is skipped only when both identities are absent
RECURSIVE WayLoopSkipsIfBothAbsent(_, _, _)
WayLoopSkipsIfBothAbsent(g, way, i) ==
    IF i > Len(way.nodes) - 1 THEN [g |-> g, ok |-> TRUE]
    ELSE LET node1 == way.nodes[i]
             node2 == way.nodes[i + 1]
         IN IF node1 \notin NodeSet(g) /\ node2 \notin NodeSet(g)
            THEN WayLoopSkipsIfBothAbsent(g, way, i + 1)
            ELSE IF KeywordClash(way.tags)
                 THEN [g |-> g, ok |-> FALSE]
                 ELSE WayLoopSkipsIfBothAbsent(
                          AddEdge(g, node1, node2,
                                  IF /\ {node1, node2} \subseteq NodeSet(g)
                                     /\ DOMAIN g.node[node1] # {}
                                     /\ DOMAIN g.node[node2] # {}
                                  THEN haversine(g.node[node1].lon, g.node[node1].lat,
                                                 g.node[node2].lon, g.node[node2].lat)
                                  ELSE 0,
                                  way.id, way.tags),
                          way, i + 1)

\* lines 39-59: the loop over the consecutive references of one segment, from
\* position i on. The result is the graph and whether the loop ran to its end.
RECURSIVE WayLoop(_, _, _)
WayLoop(g, way, i) ==
    IF i > Len(way.nodes) - 1 THEN [g |-> g, ok |-> TRUE]
    ELSE LET node1 == way.nodes[i]
             node2 == way.nodes[i + 1]
         IN IF node1 \notin NodeSet(g) \/ node2 \notin NodeSet(g)
            THEN WayLoop(g, way, i + 1)
            ELSE IF \/ HaversineRaises(g.node[node1].lon, g.node[node1].lat,
                                       g.node[node2].lon, g.node[node2].lat)
                    \/ KeywordClash(way.tags)
                 THEN [g |-> g, ok |-> FALSE]
                 ELSE WayLoop(AddEdge(g, node1, node2,
                                      haversine(g.node[node1].lon, g.node[node1].lat,
                                                g.node[node2].lon, g.node[node2].lat),
                                      way.id, way.tags),
                              way, i + 1)

\* faulty variant: an edge between every two references of the segment
RECURSIVE AllPairsLoop(_, _, _, _)
AllPairsLoop(g, way, i, j) ==
    IF i > Len(way.nodes) - 1 THEN g
    ELSE IF j > Len(way.nodes) THEN AllPairsLoop(g, way, i + 1, i + 2)
    ELSE IF way.nodes[i] \notin NodeSet(g) \/ way.nodes[j] \notin NodeSet(g)
         THEN AllPairsLoop(g, way, i, j + 1)
         ELSE AllPairsLoop(AddEdge(g, way.nodes[i], way.nodes[j],
                                   haversine(g.node[way.nodes[i]].lon, g.node[way.nodes[i]].lat,
                                             g.node[way.nodes[j]].lon, g.node[way.nodes[j]].lat),
                                   way.id, way.tags),
                           way, i, j + 1)
ProcessWayAllPairs(g, way) ==
    IF Len(way.nodes) < 2 THEN [g |-> g, ok |-> TRUE]
    ELSE IF KeywordClash(way.tags) THEN [g |-> g, ok |-> FALSE]
    ELSE [g |-> AllPairsLoop(g, way, 1, 2), ok |-> TRUE]

\* lines 33-59 for one segment
ProcessWay(g, way) ==
    IF Len(way.nodes) < 2 THEN [g |-> g, ok |-> TRUE] ELSE WayLoop(g, way, 1)

\* ---------------------------------------------------------------- topology
Neighbors(g, n) == {m \in NodeSet(g) : {n, m} \in EdgeSet(g)}

\* G.degree(n): a self-loop counts twice
Degree(g, n) ==
    Cardinality({e \in EdgeSet(g) : n \in e /\ e # {n}})
    + (IF {n} \in EdgeSet(g) THEN 2 ELSE 0)

\* faulty variant: only the neighbours of the seed are collected
ReachOneStep(g, seen) == seen \cup UNION {Neighbors(g, n) : n \in seen}

\* the nodes reachable from those of seen
RECURSIVE Reach(_, _)
Reach(g, seen) ==
    LET next == seen \cup UNION {Neighbors(g, n) : n \in seen}
    IN IF next = seen THEN seen ELSE Reach(g, next)

\* nx.connected_components(G): one set per component, in the order in which
\* the iteration over the nodes (ascending identities) meets them
RECURSIVE ComponentsOf(_, _)
ComponentsOf(g, rest) ==
    IF rest = {} THEN <<>>
    ELSE LET c == Reach(g, {Min(rest)})
         IN <<c>> \o ComponentsOf(g, rest \ c)

find_connected_components(g) == ComponentsOf(g, NodeSet(g))

\* faulty variant: the subgraph is the whole graph
SubgraphWhole(g, comp) == g

\* G.subgraph(component).copy()
Subgraph(g, comp) ==
    [node |-> [n \in comp |-> g.node[n]],
     edge |-> [e \in {x \in EdgeSet(g) : x \subseteq comp} |-> g.edge[e]]]

\* faulty variant: every node with an edge is an endpoint
FindEndpointsAtLeastOne(g) == {n \in NodeSet(g) : Degree(g, n) >= 1}

\* faulty variant: a node of degree 2 is a junction
FindJunctionsAtLeastTwo(g) == {n \in NodeSet(g) : Degree(g, n) >= 2}

\* find_endpoints / find_junctions, as sets: the order of the returned list is
\* the iteration order of the nodes of the graph
find_endpoints(g) == {n \in NodeSet(g) : Degree(g, n) = 1}
find_junctions(g) == {n \in NodeSet(g) : Degree(g, n) > 2}

\* ---------------------------------------------------------------- paths
\* the simple paths that extend path to end
RECURSIVE SimplePaths(_, _, _)
SimplePaths(g, path, end) ==
    IF path[Len(path)] = end THEN {path}
    ELSE UNION {SimplePaths(g, Append(path, m), end) :
                    m \in Neighbors(g, path[Len(path)]) \ Range(path)}

\* faulty variant: the distance between the two ends of the path
PathDistanceEnds(g, path) ==
    haversine(g.node[path[1]].lon, g.node[path[1]].lat,
              g.node[path[Len(path)]].lon, g.node[path[Len(path)]].lat)

\* line 139: the sum of the 'distance' attributes along a path
PathDistance(g, path) ==
    SumSeq([i \in 1..(Len(path) - 1) |-> g.edge[{path[i], path[i + 1]}].distance])

\* faulty variant: a path of greatest distance
FindLongestPath(g, start, end) ==
    LET all == SimplePaths(g, <<start>>, end)
    IN IF all = {} THEN {<<>>}
       ELSE {p \in all : \A q \in all : PathDistance(g, p) >= PathDistance(g, q)}

\* find_path_between_endpoints: the results nx.shortest_path(G, start, end,
\* weight='distance') can have, one of the paths of least distance (which one
\* of several is up to the search); <<>> stands for None (NetworkXNoPath)
find_path_between_endpoints(g, start, end) ==
    LET all == SimplePaths(g, <<start>>, end)
    IN IF all = {} THEN {<<>>}
       ELSE {p \in all : \A q \in all : PathDistance(g, p) <= PathDistance(g, q)}

\* ---------------------------------------------------------------- trail assembly
\* lines 141-149: the values of key k on the edges of the path, in path order
TagValues(g, path, k) ==
    LET has == SelectSeq([i \in 1..(Len(path) - 1) |-> i],
                         LAMBDA i : k \in TagKeys(g.edge[{path[i], path[i + 1]}].tags))
    IN [j \in 1..Len(has) |-> TagGet(g.edge[{path[has[j]], path[has[j] + 1]}].tags, k)]

Count(vals, v) == Cardinality({i \in 1..Len(vals) : vals[i] = v})

\* faulty variant: the last of the values with the highest count
MostCommonLast(vals) ==
    LET best == CHOOSE i \in 1..Len(vals) :
                    /\ \A j \in 1..Len(vals) : Count(vals, vals[j]) <= Count(vals, vals[i])
                    /\ \A j \in (i + 1)..Len(vals) : Count(vals, vals[j]) < Count(vals, vals[i])
    IN vals[best]

\* lines 156-163: max over value_counts.items() (insertion order) by count:
\* the first of the values with the highest count
MostCommon(vals) ==
    LET best == CHOOSE i \in 1..Len(vals) :
                    /\ \A j \in 1..Len(vals) : Count(vals, vals[j]) <= Count(vals, vals[i])
                    /\ \A j \in 1..(i - 1) : Count(vals, vals[j]) < Count(vals, vals[i])
    IN vals[best]

ResolvedTags(g, path) ==
    LET keys == UNION {TagKeys(g.edge[{path[i], path[i + 1]}].tags) : i \in 1..(Len(path) - 1)}
    IN {<<k, MostCommon(TagValues(g, path, k))>> : k \in keys \ {"distance", "way_id"}}

\* faulty variant: the coordinates are (lat, lon)
CoordinatesLatLon(g, path) ==
    [i \in 1..Len(path) |-> <<g.node[path[i]].lat, g.node[path[i]].lon>>]

\* line 136
Coordinates(g, path) == [i \in 1..Len(path) |-> <<g.node[path[i]].lon, g.node[path[i]].lat>>]

\* create_trail_from_path for a path of two nodes or more; path is the
\* argument, kept to name the nodes the trail runs through
Trail(g, path) ==
    [path |-> path,
     coordinates |-> Coordinates(g, path),
     length_miles |-> PathDistance(g, path),
     tags |-> ResolvedTags(g, path)]

\* faulty variant: a path of one node gives a trail
CreateTrailFromOne(g, path) ==
    IF Len(path) < 1 THEN <<>> ELSE <<Trail(g, path)>>

\* faulty variant: a path of two nodes gives no trail
CreateTrailMinThree(g, path) ==
    IF Len(path) < 3 THEN <<>> ELSE <<Trail(g, path)>>

\* "path = find...; if path: trail = create_trail_from_path(G, path); if trail:
\* trails.append(trail)": the trails appended for one path, none or one
create_trail_from_path(g, path) ==
    IF Len(path) < 2 THEN <<>> ELSE <<Trail(g, path)>>

\* ---------------------------------------------------------------- decomposition
\* the state of the pair loop: the trails appended, the (start, end) pairs
\* handed to find_path_between_endpoints, and pair_counter
LoopStart == [trails |-> <<>>, pairs |-> <<>>, pair_counter |-> 0]

\* faulty variant: the inner loop stops one endpoint early
RECURSIVE InnerLoopSkipsLast(_, _, _, _, _, _)
InnerLoopSkipsLast(g, se, cap, i, j, st) ==
    IF j >= Len(se) THEN {st}
    ELSE IF st.pair_counter >= cap THEN {st}
    ELSE UNION {InnerLoopSkipsLast(g, se, cap, i, j + 1,
                          [trails |-> st.trails \o create_trail_from_path(g, p),
                           pairs |-> Append(st.pairs, <<se[i], se[j]>>),
                           pair_counter |-> st.pair_counter + 1]) :
                    p \in find_path_between_endpoints(g, se[i], se[j])}

\* faulty variant: the cap is tested with > instead of >=
RECURSIVE InnerLoopCapLate(_, _, _, _, _, _)
InnerLoopCapLate(g, se, cap, i, j, st) ==
    IF j > Len(se) THEN {st}
    ELSE IF st.pair_counter > cap THEN {st}
    ELSE UNION {InnerLoopCapLate(g, se, cap, i, j + 1,
                          [trails |-> st.trails \o create_trail_from_path(g, p),
                           pairs |-> Append(st.pairs, <<se[i], se[j]>>),
                           pair_counter |-> st.pair_counter + 1]) :
                    p \in find_path_between_endpoints(g, se[i], se[j])}

\* faulty variant: the path is searched from the higher endpoint to the lower
RECURSIVE InnerLoopReversed(_, _, _, _, _, _)
InnerLoopReversed(g, se, cap, i, j, st) ==
    IF j > Len(se) THEN {st}
    ELSE IF st.pair_counter >= cap THEN {st}
    ELSE UNION {InnerLoopReversed(g, se, cap, i, j + 1,
                          [trails |-> st.trails \o create_trail_from_path(g, p),
                           pairs |-> Append(st.pairs, <<se[i], se[j]>>),
                           pair_counter |-> st.pair_counter + 1]) :
                    p \in find_path_between_endpoints(g, se[j], se[i])}

\* lines 226-244: the inner loop from j on; every result it can have
RECURSIVE InnerLoop(_, _, _, _, _, _)
InnerLoop(g, se, cap, i, j, st) ==
    IF j > Len(se) THEN {st}
    ELSE IF st.pair_counter >= cap THEN {st}
    ELSE UNION {InnerLoop(g, se, cap, i, j + 1,
                          [trails |-> st.trails \o create_trail_from_path(g, p),
                           pairs |-> Append(st.pairs, <<se[i], se[j]>>),
                           pair_counter |-> st.pair_counter + 1]) :
                    p \in find_path_between_endpoints(g, se[i], se[j])}

\* lines 225-248: the outer loop from i on
RECURSIVE OuterLoop(_, _, _, _, _)
OuterLoop(g, se, cap, i, st) ==
    IF i > Len(se) THEN {st}
    ELSE UNION {IF s2.pair_counter >= cap THEN {s2} ELSE OuterLoop(g, se, cap, i + 1, s2) :
                    s2 \in InnerLoop(g, se, cap, i, i + 1, st)}

\* lines 198-208: exactly two endpoints; endpoints[0] is either of them
SimpleCase(g, endpoints) ==
    {[simple |-> TRUE, endpoints |-> endpoints, total_pairs |-> 0, warned |-> FALSE,
      pair_counter |-> 0, pairs |-> <<<<s, e>>>>, trails |-> create_trail_from_path(g, p)] :
        <<s, e, p>> \in {x \in endpoints \X endpoints \X
                                UNION {find_path_between_endpoints(g, a, b) :
                                           <<a, b>> \in endpoints \X endpoints} :
                             /\ x[1] # x[2]
                             /\ x[3] \in find_path_between_endpoints(g, x[1], x[2])}}

\* lines 210-251: any other number of endpoints
ComplexCase(g, endpoints, cap) ==
    LET total_pairs == (Cardinality(endpoints) * (Cardinality(endpoints) - 1)) \div 2
    IN {[simple |-> FALSE, endpoints |-> endpoints, total_pairs |-> total_pairs,
         warned |-> total_pairs > cap,
         pair_counter |-> st.pair_counter, pairs |-> st.pairs, trails |-> st.trails] :
            st \in OuterLoop(g, Sorted(endpoints), cap, 1, LoopStart)}

\* faulty variant: with a cap of 0 the simple case is not taken either
DecomposeCapsSimpleCase(g, cap) ==
    LET endpoints == find_endpoints(g)
    IN IF Cardinality(endpoints) = 2 /\ cap > 0 THEN SimpleCase(g, endpoints)
       ELSE ComplexCase(g, endpoints, cap)

\* decompose_complex_network(G, max_pairs): every result it can have, with what
\* it logged (warned: the logging.warning of line 215)
decompose_complex_network(g, cap) ==
    LET endpoints == find_endpoints(g)
    IN IF Cardinality(endpoints) = 2 THEN SimpleCase(g, endpoints)
       ELSE ComplexCase(g, endpoints, cap)

\* ---------------------------------------------------------------- inputs
\* a point of the meridian
Point(lat) == [lat |-> lat, lon |-> 0]

TrailTags == {<<"highway", "path">>}

\* topology inputs: the points 1..NumNodes, point n at latitude n % (MaxLat + 1),
\* and at most MaxEdges trail segments of two points each, in ascending order
TopoPairs == {p \in (1..NumNodes) \X (1..NumNodes) : p[1] < p[2]}
PairKey(p) == p[1] * (NumNodes + 1) + p[2]
TopoWays(S) ==
    LET keys == Sorted({PairKey(p) : p \in S})
    IN [i \in 1..Len(keys) |->
            [id |-> i,
             nodes |-> <<keys[i] \div (NumNodes + 1), keys[i] % (NumNodes + 1)>>,
             tags |-> TrailTags]]

Caps == (0..MaxCap) \cup {DefaultMaxPairs}

\* the raw elements of a points mapping with the identities 1..Len(ns) and of
\* a list of segments: the points, then the segments
Elements(ns, ws) ==
    [i \in 1..Len(ns) |-> [type |-> "node", id |-> i, lat |-> ns[i].lat, lon |-> ns[i].lon]]
    \o [i \in 1..Len(ws) |->
            [type |-> "way", id |-> ws[i].id, nodes |-> ws[i].nodes, tags |-> ws[i].tags]]

Start ==
    /\ pc = "extract"
    /\ nodes = <<>>
    /\ ways = <<>>
    /\ processed_trails = <<>>
    /\ trail_points = <<>>
    /\ trail_ways = <<>>
    /\ G = EmptyGraph
    /\ wi = 1
    /\ components = <<>>
    /\ ci = 1
    /\ trails = <<>>
    /\ report = <<>>

Init ==
    /\ \E S \in SUBSET TopoPairs :
           /\ Cardinality(S) <= MaxEdges
           /\ osm_data = Elements([n \in 1..NumNodes |-> Point(n % (MaxLat + 1))], TopoWays(S))
    /\ max_pairs \in Caps
    /\ Start

\* ---------------------------------------------------------------- process_county
\* faulty variant: the length is the number of segments of the simplified line
ProcessedTrailOfGeometry(trail, i, geometry) ==
    [id |-> "county_" \o Str(i),
     name |-> get_trail_name(trail.tags, i),
     difficulty |-> estimate_trail_difficulty(trail.tags, Len(geometry) - 1),
     length_miles |-> Len(geometry) - 1,
     county |-> "County",
     start_lat |-> geometry[1][2],
     start_lon |-> geometry[1][1],
     status |-> "open",
     geometry |-> geometry]

\* lines 136-164: the processed trail of trails[i - 1], of identity
\* f"{county_lower}_{i}"; geometry is the simplified line. round(x, 2) leaves a
\* whole number of miles as it is.
ProcessedTrail(trail, i, geometry) ==
    [id |-> "county_" \o Str(i),
     name |-> get_trail_name(trail.tags, i),
     difficulty |-> estimate_trail_difficulty(trail.tags, trail.length_miles),
     length_miles |-> trail.length_miles,
     county |-> "County",
     start_lat |-> trail.coordinates[1][2],
     start_lon |-> trail.coordinates[1][1],
     status |-> "open",
     geometry |-> geometry]

\* lines 130-166, from trail i on: every list of processed trails the loop can
\* give. No trail of reconstruct_trails is empty or without geometry, so none
\* is skipped.
RECURSIVE ProcessLoop(_, _)
ProcessLoop(ts, i) ==
    IF i > Len(ts) THEN {<<>>}
    ELSE {<<ProcessedTrail(ts[i], i, geometry)>> \o rest :
              geometry \in simplify_geometry(ts[i].coordinates),
              rest \in ProcessLoop(ts, i + 1)}

\* faulty variant: the sequence numbers start at 1
TrailPointRowsFromOne(trail) ==
    [i \in 1..Len(trail.geometry) |->
        [trail_id |-> trail.id, sequence |-> i,
         latitude |-> trail.geometry[i][2], longitude |-> trail.geometry[i][1]]]

\* process_trail_points lines 212-229: the rows of one trail, then of all
TrailPointRows(trail) ==
    [i \in 1..Len(trail.geometry) |->
        [trail_id |-> trail.id, sequence |-> i - 1,
         latitude |-> trail.geometry[i][2], longitude |-> trail.geometry[i][1]]]

RECURSIVE TrailPoints(_)
TrailPoints(ts) ==
    IF ts = <<>> THEN <<>> ELSE TrailPointRows(Head(ts)) \o TrailPoints(Tail(ts))

\* ---------------------------------------------------------------- actions
\* process_county lines 116-117
ExtractElements ==
    /\ pc = "extract"
    /\ nodes' = extract_nodes_from_osm_data(osm_data)
    /\ ways' = extract_ways_from_osm_data(osm_data)
    /\ pc' = "filter"
    /\ UNCHANGED <<osm_data, max_pairs, trail_ways, G, wi, components, ci, trails, report,
                   processed_trails, trail_points>>

\* process_county line 122
FilterTrailWays ==
    /\ pc = "filter"
    /\ trail_ways' = filter_trail_ways(ways)
    /\ pc' = "nodes"
    /\ UNCHANGED <<osm_data, processed_trails, trail_points, nodes, ways, max_pairs, G, wi, components, ci, trails, report>>

\* create_graph_from_osm_elements lines 26-30
AddNodes ==
    /\ pc = "nodes"
    /\ G' = AddAllNodes(nodes)
    /\ wi' = 1
    /\ pc' = "ways"
    /\ UNCHANGED <<osm_data, processed_trails, trail_points, nodes, ways, max_pairs, trail_ways, components, ci, trails, report>>

\* create_graph_from_osm_elements lines 33-59, one segment; an exception
\* leaves create_graph_from_osm_elements and reconstruct_trails
AddWay ==
    /\ pc = "ways"
    /\ wi <= Len(trail_ways)
    /\ LET r == ProcessWay(G, trail_ways[wi])
       IN /\ G' = r.g
          /\ wi' = IF r.ok THEN wi + 1 ELSE wi
          /\ pc' = IF r.ok THEN "ways" ELSE "raised"
    /\ UNCHANGED <<osm_data, processed_trails, trail_points, nodes, ways, max_pairs, trail_ways, components, ci, trails, report>>

\* reconstruct_trails lines 266-274
FindComponents ==
    /\ pc = "ways"
    /\ wi > Len(trail_ways)
    /\ components' = find_connected_components(G)
    /\ ci' = 1
    /\ pc' = "components"
    /\ UNCHANGED <<osm_data, processed_trails, trail_points, nodes, ways, max_pairs, trail_ways, G, wi, trails, report>>

\* reconstruct_trails lines 275-288, one component
DecomposeComponent ==
    /\ pc = "components"
    /\ ci <= Len(components)
    /\ LET subgraph == Subgraph(G, components[ci])
       IN \E out \in decompose_complex_network(subgraph, max_pairs) :
            /\ trails' = trails \o out.trails
            /\ report' = Append(report, [component |-> components[ci], out |-> out])
    /\ ci' = ci + 1
    /\ UNCHANGED <<osm_data, processed_trails, trail_points, nodes, ways, max_pairs, pc, trail_ways, G, wi, components>>

\* reconstruct_trails line 290
Return ==
    /\ pc = "components"
    /\ ci > Len(components)
    /\ pc' = "done"
    /\ UNCHANGED <<osm_data, processed_trails, trail_points, nodes, ways, max_pairs, trail_ways, G, wi, components, ci, trails, report>>

\* process_county lines 129-166 and the branch of line 169: without a processed
\* trail process_county warns and returns False
ProcessTrails ==
    /\ pc = "done"
    /\ processed_trails' \in ProcessLoop(trails, 1)
    /\ pc' = IF trails = <<>> THEN "no_trails" ELSE "processed"
    /\ UNCHANGED <<osm_data, nodes, ways, max_pairs, trail_ways, G, wi, components, ci,
                   trails, report, trail_points>>

\* process_county lines 170-188: the files are written, process_trail_points
\* runs, process_county returns True
ProcessTrailPoints ==
    /\ pc = "processed"
    /\ trail_points' = TrailPoints(processed_trails)
    /\ pc' = "finished"
    /\ UNCHANGED <<osm_data, nodes, ways, max_pairs, trail_ways, G, wi, components, ci,
                   trails, report, processed_trails>>

Next ==
    \/ ExtractElements
    \/ FilterTrailWays
    \/ AddNodes
    \/ AddWay
    \/ FindComponents
    \/ DecomposeComponent
    \/ Return
    \/ ProcessTrails
    \/ ProcessTrailPoints

Spec == Init /\ [][Next]_vars

\* reconstruct_trails lines 275-288 for any component that has not been
\* processed yet: the loop body, run for the components in any order
DecomposeAnyComponent ==
    /\ pc = "components"
    /\ \E c \in Range(components) \ {report[k].component : k \in 1..Len(report)} :
       \E out \in decompose_complex_network(Subgraph(G, c), max_pairs) :
            /\ trails' = trails \o out.trails
            /\ report' = Append(report, [component |-> c, out |-> out])
    /\ ci' = ci + 1
    /\ UNCHANGED <<osm_data, processed_trails, trail_points, nodes, ways, max_pairs, pc,
                   trail_ways, G, wi, components>>

NextAnyOrder ==
    \/ ExtractElements
    \/ FilterTrailWays
    \/ AddNodes
    \/ AddWay
    \/ FindComponents
    \/ DecomposeAnyComponent
    \/ Return
    \/ ProcessTrails
    \/ ProcessTrailPoints

\* the topology inputs, with the components processed in any order
SpecAnyOrder == Init /\ [][NextAnyOrder]_vars

\* build inputs: the points 1..k for some k <= BuildIds (an identity above k is
\* absent from the points mapping), and at most BuildWays segments of at most
\* BuildWayLen references to 1..BuildIds, each with one of the tag mappings
BuildTags ==
    { {<<"highway", "path">>, <<"name", "a">>},
      {<<"foot", "yes">>, <<"name", "b">>},
      {<<"highway", "road">>},
      {<<"route", "hiking">>, <<"distance", "x">>} }

BuildRefs == UNION {[1..n -> 1..BuildIds] : n \in 0..BuildWayLen}

BuildWaySeqs ==
    UNION {{[i \in 1..n |-> [id |-> i, nodes |-> f[i][1], tags |-> f[i][2]]] :
                f \in [1..n -> BuildRefs \X BuildTags]} : n \in 0..BuildWays}

InitBuild ==
    /\ \E k \in 0..BuildIds : \E ws \in BuildWaySeqs :
           osm_data = Elements([n \in 1..k |-> Point(n % (MaxLat + 1))], ws)
    /\ max_pairs = DefaultMaxPairs
    /\ Start

SpecBuild == InitBuild /\ [][Next]_vars

\* tag inputs: the points 1..TagWays + 1 and the segments (i, i + 1), each with
\* one of the tag mappings: a trail segment with a surface and a name, or with
\* a name and a ref (either may be empty), or a road, which is no trail segment
\* and splits the line
Optional(k, values) == {{}} \cup {{<<k, v>>} : v \in values}

WayTagChoices ==
    {TrailTags \cup a \cup b :
         a \in Optional("surface", {"gravel", "dirt"}), b \in Optional("name", {"a", "b"})}
    \cup {TrailTags \cup a \cup b :
              a \in Optional("name", {"", "a"}), b \in Optional("ref", {"", "7"})}
    \cup {{<<"highway", "road">>}}

InitTags ==
    /\ \E f \in [1..TagWays -> WayTagChoices] :
           osm_data = Elements([n \in 1..(TagWays + 1) |-> Point(n % (MaxLat + 1))],
                               [i \in 1..TagWays |->
                                    [id |-> i, nodes |-> <<i, i + 1>>, tags |-> f[i]]])
    /\ max_pairs = DefaultMaxPairs
    /\ Start

SpecTags == InitTags /\ [][Next]_vars

\* difficulty inputs: one trail segment between two points 0..MaxMiles miles
\* apart, with any of the tags sac_scale, trail_visibility and surface, each
\* with an empty value, a value of each class of its rule, or a value of none
DifficultyTags ==
    {TrailTags \cup a \cup b \cup c :
         a \in Optional("sac_scale", {"", "hiking", "alpine_hiking", "difficult_alpine_hiking"}),
         b \in Optional("trail_visibility", {"", "good", "intermediate", "bad"}),
         c \in Optional("surface", {"", "asphalt", "gravel", "dirt", "rock"})}

InitDifficulty ==
    /\ \E miles \in 0..MaxMiles : \E tags \in DifficultyTags :
           osm_data = Elements(<<Point(0), Point(miles)>>,
                               <<[id |-> 1, nodes |-> <<1, 2>>, tags |-> tags]>>)
    /\ max_pairs = DefaultMaxPairs
    /\ Start

SpecDifficulty == InitDifficulty /\ [][Next]_vars

\* filter inputs: the points 1..FilterWays + 1 and the segments (i, i + 1), each
\* with any of the tags highway, route and foot, with the values the filter
\* looks for and one other value
FilterTags ==
    {a \cup b \cup c :
         a \in Optional("highway", {"path", "footway", "track", "road"}),
         b \in Optional("route", {"hiking", "bicycle"}),
         c \in Optional("foot", {"yes", "no"})}

InitFilter ==
    /\ \E f \in [1..FilterWays -> FilterTags] :
           osm_data = Elements([n \in 1..(FilterWays + 1) |-> Point(n % (MaxLat + 1))],
                               [i \in 1..FilterWays |->
                                    [id |-> i, nodes |-> <<i, i + 1>>, tags |-> f[i]]])
    /\ max_pairs = DefaultMaxPairs
    /\ Start

SpecFilter == InitFilter /\ [][Next]_vars

\* extraction inputs: ExtractPoints point elements, the i-th with the identity i
\* or none, with a latitude or none, with a longitude or none, and one trail
\* segment through the points 1..ExtractPoints, with an identity or none
InitExtract ==
    /\ \E has \in [1..ExtractPoints -> [id : BOOLEAN, lat : BOOLEAN, lon : BOOLEAN]] :
       \E way_id \in {None, 1} :
           osm_data =
               [i \in 1..ExtractPoints |->
                    [type |-> "node",
                     id |-> IF has[i].id THEN i ELSE None,
                     lat |-> IF has[i].lat THEN i % (MaxLat + 1) ELSE None,
                     lon |-> IF has[i].lon THEN 0 ELSE None]]
               \o <<[type |-> "way", id |-> way_id,
                     nodes |-> [i \in 1..ExtractPoints |-> i], tags |-> TrailTags]>>
    /\ max_pairs = DefaultMaxPairs
    /\ Start

SpecExtract == InitExtract /\ [][Next]_vars

\* ================================================================ claims
\* the decomposed components, once reconstruct_trails has returned: the
\* subgraph handed to decompose_complex_network and its result
Reports == IF pc = "done" THEN Range(report) ELSE {}
Sub(r) == Subgraph(G, r.component)

RECURSIVE SumDistances(_, _)
SumDistances(g, es) ==
    IF es = {} THEN 0
    ELSE LET e == CHOOSE x \in es : TRUE
         IN g.edge[e].distance + SumDistances(g, es \ {e})

\* the nodes of degree 1, counted on the edges
Ends(g) == {n \in NodeSet(g) : Cardinality({e \in EdgeSet(g) : e = {n}}) * 2
                                + Cardinality({e \in EdgeSet(g) : n \in e /\ e # {n}}) = 1}

NumPairs(E) == (E * (E - 1)) \div 2

\* the pairs (i < j) of a sorted sequence, in enumeration order
PairEnum(se) ==
    LET n == Len(se)
        keys == Sorted({q[1] * (n + 1) + q[2] : q \in {x \in (1..n) \X (1..n) : x[1] < x[2]}})
    IN [k \in 1..Len(keys) |-> <<se[keys[k] \div (n + 1)], se[keys[k] % (n + 1)]>>]

\* a single chain: a tree (connected, one edge fewer than nodes, no loop) with
\* exactly two nodes of degree 1
IsChain(g) ==
    /\ Cardinality(NodeSet(g)) >= 2
    /\ Cardinality(EdgeSet(g)) = Cardinality(NodeSet(g)) - 1
    /\ \A e \in EdgeSet(g) : Cardinality(e) = 2
    /\ Cardinality(Ends(g)) = 2

\* the trail runs through the whole chain, edge by edge
InChainOrder(g, t) ==
    /\ Len(t.path) = Cardinality(NodeSet(g))
    /\ Range(t.path) = NodeSet(g)
    /\ \A i \in 1..(Len(t.path) - 1) : {t.path[i], t.path[i + 1]} \in EdgeSet(g)
    /\ Len(t.coordinates) = Len(t.path)
    /\ \A i \in 1..Len(t.path) :
           t.coordinates[i] = <<nodes[t.path[i]].lon, nodes[t.path[i]].lat>>

\* C1: a component that is a single chain of N >= 2 nodes gives exactly one
\* trail, with N coordinates in chain order and a length that is the sum of the
\* distances of the edges of the chain.
C1_ChainOneTrail ==
    \A r \in Reports :
        IsChain(Sub(r)) =>
            /\ Len(r.out.trails) = 1
            /\ Len(r.out.trails[1].coordinates) = Cardinality(r.component)
            /\ InChainOrder(Sub(r), r.out.trails[1])
            /\ r.out.trails[1].length_miles = SumDistances(Sub(r), EdgeSet(Sub(r)))

\* a chain of three nodes or more, made of several segments, that is longer
\* than the distance between its two ends
C1_Witness ==
    \E r \in Reports :
        /\ IsChain(Sub(r))
        /\ Cardinality(r.component) >= 3
        /\ Len(r.out.trails) = 1
        /\ \E a \in Ends(Sub(r)) : \E b \in Ends(Sub(r)) :
               r.out.trails[1].length_miles > Abs(nodes[a].lat - nodes[b].lat)

\* C2: with E > 2 endpoints and a cap of at least E(E-1)/2, there are exactly
\* E(E-1)/2 trails, the k-th between the k-th pair (i < j) of the sorted
\* endpoints, and no pair twice.
C2_AllPairs ==
    \A r \in Reports :
        LET E == Cardinality(Ends(Sub(r)))
            enum == PairEnum(Sorted(Ends(Sub(r))))
            ts == r.out.trails
        IN (E > 2 /\ max_pairs >= NumPairs(E)) =>
            /\ Len(ts) = NumPairs(E)
            /\ \A k \in 1..Len(ts) :
                   k <= Len(enum) /\ <<ts[k].path[1], ts[k].path[Len(ts[k].path)]>> = enum[k]
            /\ \A k \in 1..Len(ts) : \A m \in 1..Len(ts) :
                   k # m => {ts[k].path[1], ts[k].path[Len(ts[k].path)]}
                            # {ts[m].path[1], ts[m].path[Len(ts[m].path)]}

\* a Y: three endpoints, one junction of degree 3, three trails
C2_Witness ==
    \E r \in Reports :
        /\ Cardinality(Ends(Sub(r))) = 3
        /\ Cardinality({n \in r.component : Cardinality(Neighbors(Sub(r), n)) = 3}) = 1
        /\ Cardinality(r.component) = 4
        /\ max_pairs >= 3
        /\ Len(r.out.trails) = 3

\* C3: with E > 2 endpoints and more pairs than the cap C, exactly the first C
\* pairs of the enumeration are processed, at most C trails are emitted, and
\* the capping is a warning (no exception); the warning is logged exactly when
\* the pairs exceed the cap.
C3_CapEnforced ==
    \A r \in Reports :
        LET E == Cardinality(Ends(Sub(r)))
            enum == PairEnum(Sorted(Ends(Sub(r))))
        IN E > 2 =>
            /\ r.out.warned <=> (NumPairs(E) > max_pairs)
            /\ pc # "raised"
            /\ NumPairs(E) > max_pairs =>
                   /\ r.out.pair_counter = max_pairs
                   /\ r.out.pairs = SubSeq(enum, 1, max_pairs)
                   /\ Len(r.out.trails) <= max_pairs

\* three endpoints, a cap between 1 and 2: capped, with trails
C3_Witness ==
    \E r \in Reports :
        /\ Cardinality(Ends(Sub(r))) > 2
        /\ max_pairs >= 1
        /\ NumPairs(Cardinality(Ends(Sub(r)))) > max_pairs
        /\ r.out.warned
        /\ Len(r.out.trails) = max_pairs

\* C4, as claimed: a component with fewer than 2 edges gives no trail.
C4_FewEdgesNoTrail ==
    \A r \in Reports :
        Cardinality(EdgeSet(Sub(r))) < 2 => r.out.trails = <<>>

\* C4, amended: a component without an edge gives no trail; a component that is
\* one edge joining two distinct nodes gives exactly one trail, of 2 coordinates,
\* between the two nodes.
C4_NoEdgeNoTrail ==
    \A r \in Reports :
        /\ EdgeSet(Sub(r)) = {} => r.out.trails = <<>>
        /\ (Cardinality(EdgeSet(Sub(r))) = 1 /\ Cardinality(r.component) = 2) =>
               /\ Len(r.out.trails) = 1
               /\ Len(r.out.trails[1].coordinates) = 2
               /\ Range(r.out.trails[1].path) = r.component

C4_Witness ==
    \E r \in Reports : \E q \in Reports :
        /\ Cardinality(EdgeSet(Sub(r))) = 1
        /\ Len(r.out.trails) = 1
        /\ EdgeSet(Sub(q)) = {}
        /\ q.out.trails = <<>>

\* C5: a component with fewer than two endpoints has no endpoint pair and gives
\* no trail, and nothing is raised.
C5_FewEndpointsNoTrail ==
    \A r \in Reports :
        Cardinality(Ends(Sub(r))) < 2 =>
            /\ r.out.trails = <<>>
            /\ r.out.pairs = <<>>
            /\ ~r.out.warned
            /\ pc # "raised"

\* a cycle with one dead-end tail
C5_Witness ==
    \E r \in Reports :
        /\ Cardinality(Ends(Sub(r))) = 1
        /\ Cardinality(EdgeSet(Sub(r))) >= 4
        /\ r.out.trails = <<>>

\* ---------------------------------------------------------------- the build
\* create_graph_from_osm_elements has returned
Built == pc \in {"components"} \cup {"done", "processed", "no_trails", "finished"}

\* the segment has e as a pair of consecutive references
CoveredBy(e, w) ==
    /\ Len(w.nodes) >= 2
    /\ \E i \in 1..(Len(w.nodes) - 1) : e = {w.nodes[i], w.nodes[i + 1]}

\* the identities the retained segments reference
Referenced == UNION {Range(trail_ways[k].nodes) : k \in 1..Len(trail_ways)}

\* C6: every edge joins two consecutive references of some segment of two
\* references or more.
C6_OnlyConsecutive ==
    \A e \in EdgeSet(G) : \E k \in 1..Len(trail_ways) : CoveredBy(e, trail_ways[k])

\* a segment of three distinct present points: its first and third point have
\* no edge, the consecutive ones have
C6_Witness ==
    /\ Built
    /\ \E k \in 1..Len(trail_ways) :
        LET ns == trail_ways[k].nodes
        IN /\ Len(ns) = 3
           /\ Cardinality(Range(ns)) = 3
           /\ Range(ns) \subseteq DOMAIN nodes
           /\ {ns[1], ns[2]} \in EdgeSet(G)
           /\ {ns[2], ns[3]} \in EdgeSet(G)
           /\ {ns[1], ns[3]} \notin EdgeSet(G)

\* C7: both ends of every edge of the returned graph are in the points mapping
\* and in the node set, and an identity that a segment references but the
\* points mapping lacks is no node.
C7_NoDanglingNode ==
    Built =>
        /\ \A e \in EdgeSet(G) : e \subseteq DOMAIN nodes /\ e \subseteq NodeSet(G)
        /\ \A n \in Referenced : n \notin DOMAIN nodes => n \notin NodeSet(G)

\* a segment with an edge and a reference to an absent point
C7_Witness ==
    /\ Built
    /\ \E k \in 1..Len(trail_ways) :
        /\ \E e \in EdgeSet(G) : CoveredBy(e, trail_ways[k])
        /\ \E n \in Range(trail_ways[k].nodes) : n \notin DOMAIN nodes

\* C8: with a reference to an absent point among the segments, the build
\* still returns a graph (nothing is raised), and in it every pair of
\* consecutive references to two present points, of every segment, is an edge.
C8_DanglingSkipsOnlyEdge ==
    (\E n \in Referenced : n \notin DOMAIN nodes) =>
        /\ pc # "raised"
        /\ Built =>
               \A k \in 1..Len(trail_ways) : \A i \in 1..(Len(trail_ways[k].nodes) - 1) :
                   {trail_ways[k].nodes[i], trail_ways[k].nodes[i + 1]} \subseteq DOMAIN nodes
                       => {trail_ways[k].nodes[i], trail_ways[k].nodes[i + 1]} \in EdgeSet(G)

\* C9, as claimed: the nodes of the built graph are the points that a retained
\* segment references.
C9_NodesAreReferenced ==
    Built => NodeSet(G) = Referenced \cap DOMAIN nodes

\* C9, amended: the nodes of the built graph are the points of the points
\* mapping, referenced or not.
C9_NodesArePoints ==
    Built => NodeSet(G) = DOMAIN nodes

\* a node that only a segment that was filtered out references, in a graph
\* with an edge
C9_Witness ==
    /\ Built
    /\ EdgeSet(G) # {}
    /\ \E n \in NodeSet(G) :
        /\ n \notin Referenced
        /\ \E k \in 1..Len(ways) : n \in Range(ways[k].nodes)

\* C10: an edge has the way_id and exactly the tags of the last segment that
\* covers it.
C10_LastSegmentOnly ==
    Built =>
        \A e \in EdgeSet(G) :
            LET cov == {k \in 1..Len(trail_ways) : CoveredBy(e, trail_ways[k])}
                last == CHOOSE k \in cov : \A m \in cov : m <= k
            IN /\ G.edge[e].way_id = trail_ways[last].id
               /\ G.edge[e].tags = trail_ways[last].tags

\* C11: the build is monotone: no step removes a node or an edge of the graph,
\* and every node of the graph is a point of the points mapping (an identity
\* that only a segment references is never added).
C11_BuildMonotone ==
    [][/\ NodeSet(G) \subseteq NodeSet(G')
       /\ EdgeSet(G) \subseteq EdgeSet(G')
       /\ NodeSet(G') \subseteq DOMAIN nodes']_vars

\* two segments have been processed, the first with a dangling reference; the
\* graph has an edge of the first segment, and the second segment has added
\* another edge and covered an edge of the first once more
C11_Witness ==
    /\ pc = "ways"
    /\ wi = 3
    /\ Range(trail_ways[1].nodes) \ DOMAIN nodes # {}
    /\ \E e \in EdgeSet(G) : \E f \in EdgeSet(G) :
           /\ e # f
           /\ CoveredBy(e, trail_ways[1]) /\ CoveredBy(e, trail_ways[2])
           /\ ~CoveredBy(f, trail_ways[1]) /\ CoveredBy(f, trail_ways[2])

\* the pairs of nodes joined by a path of edges: r, extended edge by edge
\* until nothing is added
RECURSIVE JoinedFrom(_, _)
JoinedFrom(g, r) ==
    LET more == {x \in NodeSet(g) \X NodeSet(g) :
                     x \notin r /\ \E c \in NodeSet(g) : <<x[1], c>> \in r /\ {c, x[2]} \in EdgeSet(g)}
    IN IF more = {} THEN r ELSE JoinedFrom(g, r \cup more)

Joined(g) == JoinedFrom(g, {<<n, n>> : n \in NodeSet(g)})

ComponentsFound == pc = "components" /\ ci = 1

\* C12: the components are a partition of the node set: every node is in
\* exactly one of them, two nodes are in the same one iff a path of edges
\* joins them, and a node without an edge is a component of its own.
C12_ComponentsPartition ==
    ComponentsFound =>
        LET joined == Joined(G)
        IN /\ \A i \in 1..Len(components) : components[i] \subseteq NodeSet(G)
           /\ \A n \in NodeSet(G) :
                  Cardinality({i \in 1..Len(components) : n \in components[i]}) = 1
           /\ \A u \in NodeSet(G) : \A v \in NodeSet(G) :
                  (\E i \in 1..Len(components) : {u, v} \subseteq components[i])
                      <=> <<u, v>> \in joined
           /\ \A n \in NodeSet(G) :
                  (\A e \in EdgeSet(G) : n \notin e) => {n} \in Range(components)

\* a graph with a node without an edge and a component of three nodes or
\* more, two of which have no edge between them
C12_Witness ==
    /\ ComponentsFound
    /\ \E n \in NodeSet(G) : (\A e \in EdgeSet(G) : n \notin e) /\ {n} \in Range(components)
    /\ \E i \in 1..Len(components) :
           /\ Cardinality(components[i]) >= 3
           /\ \E u \in components[i] : \E v \in components[i] :
                  u # v /\ {u, v} \notin EdgeSet(G)

\* the edge ends at node n: one for every edge to another node, two for a
\* self-loop
IncidentEnds(g, n) ==
    Cardinality({m \in NodeSet(g) : {n, m} \in EdgeSet(g)})
    + Cardinality({e \in EdgeSet(g) : e = {n}})

\* C13: the endpoints of a component are exactly its nodes of degree 1, its
\* junctions exactly its nodes of degree greater than 2; no node is both, and
\* a node of degree 0 or 2 is neither.
C13_EndpointsAndJunctions ==
    \A r \in Reports :
        LET g == Sub(r)
        IN /\ r.out.endpoints = {n \in NodeSet(g) : IncidentEnds(g, n) = 1}
           /\ find_junctions(g) = {n \in NodeSet(g) : IncidentEnds(g, n) > 2}
           /\ r.out.endpoints \cap find_junctions(g) = {}
           /\ \A n \in NodeSet(g) :
                  IncidentEnds(g, n) \in {0, 2} => n \notin r.out.endpoints \cup find_junctions(g)

\* a component with a node of degree 1, one of degree 2 and one of degree 3 or
\* more, next to a component that is one node of degree 0
C13_Witness ==
    /\ \E r \in Reports :
           /\ \E n \in r.out.endpoints : IncidentEnds(Sub(r), n) = 1
           /\ \E n \in r.component : IncidentEnds(Sub(r), n) = 2
           /\ \E n \in find_junctions(Sub(r)) : IncidentEnds(Sub(r), n) >= 3
    /\ \E r \in Reports :
           \E n \in r.component : IncidentEnds(Sub(r), n) = 0 /\ r.out.endpoints = {}

\* the trails of reconstruct_trails, once it has returned
Trails == IF pc = "done" THEN Range(trails) ELSE {}

\* C14: a trail built from a path p of k >= 2 nodes has k coordinates, the
\* (lon, lat) of p[1..k] in path order, and its length is the sum of the
\* 'distance' attributes stored on the edges (p[i], p[i+1]).
C14_CoordinatesAndLength ==
    \A t \in Trails :
        LET k == Len(t.path)
        IN /\ k >= 2
           /\ Len(t.coordinates) = k
           /\ \A i \in 1..k :
                  t.coordinates[i] = <<nodes[t.path[i]].lon, nodes[t.path[i]].lat>>
           /\ t.length_miles
                  = SumDistances(G, {{t.path[i], t.path[i + 1]} : i \in 1..(k - 1)})

\* a trail of three nodes or more, off the equator, that is longer than the
\* distance between its first and its last point
C14_Witness ==
    \E t \in Trails :
        /\ Len(t.path) >= 3
        /\ \E i \in 1..Len(t.path) : t.coordinates[i][1] # t.coordinates[i][2]
        /\ t.length_miles > Abs(t.coordinates[1][2] - t.coordinates[Len(t.path)][2])

\* the positions of the edges of path p that carry the tag <<k, v>>
Occurrences(p, k, v) ==
    {i \in 1..(Len(p) - 1) : <<k, v>> \in G.edge[{p[i], p[i + 1]}].tags}

PathTags(p) == UNION {G.edge[{p[i], p[i + 1]}].tags : i \in 1..(Len(p) - 1)}

\* C15: the resolved tags of a trail have one value for every key that an
\* edge of its path carries, the value on the most edges and, among the values
\* on equally many edges, the one that occurs first in path order; the keys
\* distance and way_id are not among the resolved tags.
C15_TagResolution ==
    \A t \in Trails :
        /\ TagKeys(t.tags) = TagKeys(PathTags(t.path)) \ {"distance", "way_id"}
        /\ Cardinality(t.tags) = Cardinality(TagKeys(t.tags))
        /\ \A x \in t.tags : \A y \in PathTags(t.path) :
               LET nx == Cardinality(Occurrences(t.path, x[1], x[2]))
                   ny == Cardinality(Occurrences(t.path, y[1], y[2]))
               IN y[1] = x[1] =>
                      \/ ny < nx
                      \/ /\ ny = nx
                         /\ Min(Occurrences(t.path, x[1], x[2]))
                                <= Min(Occurrences(t.path, y[1], y[2]))

\* a trail of three edges, against the order of the identities, on which the
\* surface on two edges wins over the surface of the first edge, and the
\* name of the first edge wins over another name on as many edges
C15_Witness ==
    \E t \in Trails :
        /\ Len(t.path) = 4
        /\ t.path[1] > t.path[2]
        /\ \E v \in {"gravel", "dirt"} :
               /\ Cardinality(Occurrences(t.path, "surface", v)) = 2
               /\ 1 \notin Occurrences(t.path, "surface", v)
               /\ Occurrences(t.path, "surface", TagGet(PathTags(t.path) \ {<<"surface", v>>},
                                                        "surface")) = {1}
               /\ <<"surface", v>> \in t.tags
        /\ \E v \in {"a", "b"} : \E u \in {"a", "b"} :
               /\ Occurrences(t.path, "name", v) = {1}
               /\ Cardinality(Occurrences(t.path, "name", u)) = 1
               /\ u # v
               /\ <<"name", v>> \in t.tags

\* the names "Trail {k}" of the first indices
IndexNames == <<"Trail 1", "Trail 2", "Trail 3", "Trail 4", "Trail 5", "Trail 6",
                "Trail 7", "Trail 8", "Trail 9">>

\* the loop of process_county has run
Processed == pc \in {"processed", "no_trails"}

\* C16: the name of the k-th trail of the county is its resolved name tag if it
\* has one that is not empty, else "Trail " and its ref tag if it has one that
\* is not empty, else "Trail k"; it is never "Unnamed Trail".
C16_NameResolution ==
    Processed =>
        /\ Len(processed_trails) = Len(trails)
        /\ \A k \in 1..Len(processed_trails) :
               LET tags == trails[k].tags
                   name == processed_trails[k].name
                   named == \E v \in {x[2] : x \in tags} : v # "" /\ <<"name", v>> \in tags
                   reffed == \E v \in {x[2] : x \in tags} : v # "" /\ <<"ref", v>> \in tags
               IN /\ named => <<"name", name>> \in tags
                  /\ (~named /\ reffed) =>
                         \E v \in {x[2] : x \in tags} : <<"ref", v>> \in tags /\ name = "Trail " \o v
                  /\ (~named /\ ~reffed /\ k <= Len(IndexNames)) => name = IndexNames[k]
                  /\ name # "Unnamed Trail"

\* two trails: the first has an empty name tag and a ref tag and is named after
\* the ref, the second has neither and is named after its index, 2
C16_Witness ==
    /\ Processed
    /\ Len(processed_trails) = 2
    /\ <<"name", "">> \in trails[1].tags
    /\ <<"ref", "7">> \in trails[1].tags
    /\ processed_trails[1].name = "Trail 7"
    /\ TagKeys(trails[2].tags) \cap {"name", "ref"} = {}
    /\ processed_trails[2].name = "Trail 2"

DifficultyKeys == <<"sac_scale", "trail_visibility", "surface">>

\* the first of the difficulty keys that passes test on the tag mapping, 0 if
\* none does
FirstKey(tags, test(_, _)) ==
    IF \E i \in 1..Len(DifficultyKeys) : test(tags, DifficultyKeys[i])
    THEN Min({i \in 1..Len(DifficultyKeys) : test(tags, DifficultyKeys[i])})
    ELSE 0

\* the difficulty is one of the three values, and with a first key that passes
\* test it is the difficulty of a trail that has this tag only and no length
DecidedByFirst(test(_, _)) ==
    Processed =>
        \A k \in 1..Len(processed_trails) :
            LET tags == trails[k].tags
                first == FirstKey(tags, test)
            IN /\ processed_trails[k].difficulty \in {"Easy", "Moderate", "Hard"}
               /\ first # 0 =>
                      processed_trails[k].difficulty
                          = estimate_trail_difficulty(
                                {x \in tags : x[1] = DifficultyKeys[first]}, None)

HasKey(tags, key) == key \in TagKeys(tags)
HasValue(tags, key) == \E x \in tags : x[1] = key /\ x[2] # ""

\* C17, as claimed: the difficulty is Easy, Moderate or Hard, and the first of
\* the tags sac_scale, trail_visibility, surface that is present decides it:
\* the other tags and the length have no influence.
C17_FirstPresentDecides == DecidedByFirst(HasKey)

\* C17, amended: the difficulty is Easy, Moderate or Hard, and the first of the
\* tags sac_scale, trail_visibility, surface that is present with a value that
\* is not empty decides it: the other tags and the length have no influence.
C17_FirstNonEmptyDecides == DecidedByFirst(HasValue)

\* a trail of 5 miles or more with an empty sac_scale, a good visibility and a
\* rock surface: the visibility decides, Easy
C17_Witness ==
    /\ Processed
    /\ \E k \in 1..Len(processed_trails) :
           /\ {<<"sac_scale", "">>, <<"trail_visibility", "good">>, <<"surface", "rock">>}
                  \subseteq trails[k].tags
           /\ trails[k].length_miles >= 5
           /\ processed_trails[k].difficulty = "Easy"

\* C18: a trail with none of the tags sac_scale, trail_visibility, surface and
\* of length L is Easy for L < 2 miles (L = 0 included), Moderate for
\* 2 <= L < 5 and Hard for L >= 5.
C18_LengthFallback ==
    Processed =>
        \A k \in 1..Len(processed_trails) :
            LET L == trails[k].length_miles
                difficulty == processed_trails[k].difficulty
            IN TagKeys(trails[k].tags) \cap Range(DifficultyKeys) = {} =>
                   /\ L < 2 => difficulty = "Easy"
                   /\ (2 <= L /\ L < 5) => difficulty = "Moderate"
                   /\ L >= 5 => difficulty = "Hard"

\* the tags of a trail segment, as the filter is specified
TrailSegmentTags(tags) ==
    \/ tags \cap {<<"highway", "path">>, <<"highway", "footway">>, <<"highway", "track">>} # {}
    \/ <<"route", "hiking">> \in tags
    \/ <<"foot", "yes">> \in tags

\* kept is a sub-mapping of input with exactly the trail segments
KeptTrailSegments(input, kept) ==
    /\ \A i \in 1..Len(input) :
           (\E j \in 1..Len(kept) : kept[j].id = input[i].id) <=> TrailSegmentTags(input[i].tags)
    /\ \A j \in 1..Len(kept) : \E i \in 1..Len(input) : kept[j] = input[i]
    /\ \A j \in 1..Len(kept) : \A m \in 1..Len(kept) : kept[j].id = kept[m].id => j = m

\* C19: filter_trail_ways keeps a segment iff its highway is path, footway or
\* track, or its route is hiking, or its foot is yes; what it returns is a
\* sub-mapping of its input, with the same data under every kept key, and the
\* input is not modified, by the filter or after it.
C19_FilterSubMapping ==
    [][/\ pc # "extract" => ways' = ways
       /\ pc = "filter" => KeptTrailSegments(ways, trail_ways')]_vars

\* the filter has kept a road that is open to walkers (foot = yes is its only
\* reason) and has dropped the other segment, which has all three tags
C19_Witness ==
    /\ pc = "nodes"
    /\ Len(ways) = 2
    /\ Len(trail_ways) = 1
    /\ {<<"highway", "road">>, <<"foot", "yes">>} \subseteq trail_ways[1].tags
    /\ <<"route", "hiking">> \notin trail_ways[1].tags
    /\ \E i \in 1..Len(ways) :
           /\ ways[i].id # trail_ways[1].id
           /\ TagKeys(ways[i].tags) = {"highway", "route", "foot"}

\* the positions of the point elements that lack an identity, a latitude or a
\* longitude
MalformedPoints ==
    {i \in 1..Len(osm_data) :
         /\ osm_data[i].type = "node"
         /\ None \in {osm_data[i].id, osm_data[i].lat, osm_data[i].lon}}

\* C20: an element without identity, and a point element without latitude or
\* longitude, is dropped at extraction: it is no entry of the points mapping
\* (or of the segments mapping), no node of the graph, and reconstruction does
\* not abort.
C20_MalformedDropped ==
    /\ None \notin DOMAIN nodes
    /\ \A k \in 1..Len(ways) : ways[k].id # None
    /\ \A i \in MalformedPoints :
           /\ osm_data[i].id \notin DOMAIN nodes
           /\ osm_data[i].id \notin NodeSet(G)
    /\ pc # "raised"

\* C21: a trail has two coordinates or more, one per node of a path of the
\* graph: consecutive nodes of the trail are joined by an edge and are not the
\* same node. An empty path and a path of one node give no trail.
C21_TrailFollowsPath ==
    /\ \A t \in Trails :
           /\ Len(t.coordinates) >= 2
           /\ Len(t.coordinates) = Len(t.path)
           /\ \A i \in 1..(Len(t.path) - 1) :
                  /\ {t.path[i], t.path[i + 1]} \in EdgeSet(G)
                  /\ t.path[i] # t.path[i + 1]
    /\ pc = "done" =>
           /\ create_trail_from_path(G, <<>>) = <<>>
           /\ \A n \in NodeSet(G) : create_trail_from_path(G, <<n>>) = <<>>

\* a trail of three nodes or more whose two ends have no edge between them
C21_Witness ==
    \E t \in Trails :
        /\ Len(t.path) >= 3
        /\ {t.path[1], t.path[Len(t.path)]} \notin EdgeSet(G)

\* C22: with a cap of 0, a component with more than 2 endpoints has no pair
\* processed and gives no trail, and a component with exactly 2 endpoints
\* still gives its one trail.
C22_CapZero ==
    \A r \in Reports :
        max_pairs = 0 =>
            /\ Cardinality(Ends(Sub(r))) > 2 =>
                   /\ r.out.pairs = <<>>
                   /\ r.out.pair_counter = 0
                   /\ r.out.trails = <<>>
            /\ Cardinality(Ends(Sub(r))) = 2 =>
                   /\ Len(r.out.trails) = 1
                   /\ {r.out.trails[1].path[1],
                       r.out.trails[1].path[Len(r.out.trails[1].path)]} = Ends(Sub(r))

\* a cap of 0 and a component with three endpoints or more: pairs were
\* possible, the warning was logged, and there is no trail
C22_Witness ==
    /\ max_pairs = 0
    /\ \E r \in Reports :
           /\ Cardinality(Ends(Sub(r))) >= 3
           /\ r.out.total_pairs >= 3
           /\ r.out.warned
           /\ r.out.trails = <<>>

\* the point rows of the trail of identity id, in the order of the output
RowsOf(id) == SelectSeq(trail_points, LAMBDA row : row.trail_id = id)

\* C23: every point row belongs to a trail emitted in the same run, and every
\* emitted trail has two rows or more, numbered 0..k-1, each number once, in
\* the order of the coordinates of its simplified geometry.
C23_PointsMatchTrails ==
    pc = "finished" =>
        /\ \A j \in 1..Len(trail_points) :
               \E k \in 1..Len(processed_trails) :
                   trail_points[j].trail_id = processed_trails[k].id
        /\ \A k \in 1..Len(processed_trails) :
               LET rows == RowsOf(processed_trails[k].id)
                   geometry == processed_trails[k].geometry
               IN /\ Len(rows) >= 2
                  /\ Len(rows) = Len(geometry)
                  /\ \A i \in 1..Len(rows) :
                         /\ rows[i].sequence = i - 1
                         /\ <<rows[i].longitude, rows[i].latitude>> = geometry[i]

\* two trails or more, one of which has lost a point to the simplification
C23_Witness ==
    /\ pc = "finished"
    /\ Len(processed_trails) >= 2
    /\ \E k \in 1..Len(processed_trails) :
           /\ Len(processed_trails[k].geometry) < Len(trails[k].coordinates)
           /\ Len(RowsOf(processed_trails[k].id)) = Len(processed_trails[k].geometry)

\* the fields of a processed trail other than its geometry
Unsimplified(t) ==
    [name |-> t.name, difficulty |-> t.difficulty, length_miles |-> t.length_miles,
     start_lat |-> t.start_lat, start_lon |-> t.start_lon]

\* C24: the length and the start coordinate of a processed trail are those of
\* the unsimplified trail, and whatever the simplification removes, name,
\* difficulty, length and start coordinate are the same.
C24_SimplifyFrame ==
    Processed =>
        \A k \in 1..Len(processed_trails) :
            /\ processed_trails[k].length_miles = trails[k].length_miles
            /\ <<processed_trails[k].start_lon, processed_trails[k].start_lat>>
                   = trails[k].coordinates[1]
            /\ \A geometry \in simplify_geometry(trails[k].coordinates) :
                   Unsimplified(ProcessedTrail(trails[k], k, geometry))
                       = Unsimplified(processed_trails[k])

\* a trail that has lost a point to the simplification, which could have
\* kept it
C24_Witness ==
    /\ Processed
    /\ \E k \in 1..Len(processed_trails) :
           /\ Len(processed_trails[k].geometry) < Len(trails[k].coordinates)
           /\ trails[k].coordinates \in simplify_geometry(trails[k].coordinates)

\* the part of the built graph within a set of nodes
Within(c) ==
    [node |-> [n \in c |-> G.node[n]],
     edge |-> [e \in {x \in EdgeSet(G) : x \subseteq c} |-> G.edge[e]]]

SameMultiset(a, b) ==
    \A x \in Range(a) \cup Range(b) :
        Cardinality({i \in 1..Len(a) : a[i] = x}) = Cardinality({i \in 1..Len(b) : b[i] = x})

\* every trail lies within one component, and the trails within a component
\* are, as a multiset, a result of decomposing that component alone
TrailsPerComponent ==
    /\ \A t \in Range(trails) :
           \E i \in 1..Len(components) : Range(t.path) \subseteq components[i]
    /\ \A i \in 1..Len(components) :
           \E out \in decompose_complex_network(Within(components[i]), max_pairs) :
               SameMultiset(SelectSeq(trails, LAMBDA t : Range(t.path) \subseteq components[i]),
                            out.trails)

\* C25: decomposing a component leaves the built graph as it is, a trail has
\* only nodes of its component, and in whatever order the components are
\* processed, the trails are the multiset that the sequential loop gives: for
\* every component, a result of decomposing it alone.
C25_ComponentsIndependent ==
    [][/\ pc = "components" => G' = G
       /\ (pc = "components" /\ pc' = "done") => TrailsPerComponent']_vars

\* two components with a trail each, the second processed first
C25_Witness ==
    /\ pc = "done"
    /\ Len(components) >= 2
    /\ Len(report) = Len(components)
    /\ report[1].component = components[2]
    /\ report[1].out.trails # <<>>
    /\ \E k \in 2..Len(report) :
           report[k].component = components[1] /\ report[k].out.trails # <<>>

\* process_county has returned False: the warning "No valid trails found"
\* (line 191), or the error of the except clause (line 193)
ReturnedFalse == pc \in {"no_trails", "raised"}

\* C26: when the input has no points, the graph has no component, there is
\* no trail, and the run is not reported as failed.
C26_EmptyGraphIsNoFailure ==
    (nodes = <<>> /\ pc \notin {"extract", "filter", "nodes", "ways"}) =>
        /\ components = <<>>
        /\ trails = <<>>
        /\ ~ReturnedFalse

\* the least distances from a node after k rounds of relaxing every edge;
\* None for a node not reached yet
RECURSIVE Relax(_, _, _)
Relax(g, d, k) ==
    IF k = 0 THEN d
    ELSE Relax(g,
               [v \in NodeSet(g) |->
                    LET c == ({d[v]} \ {None})
                             \cup {d[u] + g.edge[{u, v}].distance :
                                      u \in {x \in NodeSet(g) : {x, v} \in EdgeSet(g) /\ d[x] # None}}
                    IN IF c = {} THEN None ELSE Min(c)],
               k - 1)

ShortestDistance(g, start, end) ==
    Relax(g, [v \in NodeSet(g) |-> IF v = start THEN 0 ELSE None],
          Cardinality(NodeSet(g)))[end]

\* the sequences of nodes of g that continue p along edges of g to b without
\* visiting a node twice
RECURSIVE RoutesFrom(_, _, _)
RoutesFrom(g, p, b) ==
    IF p[Len(p)] = b THEN {p}
    ELSE UNION {RoutesFrom(g, Append(p, m), b) :
                    m \in {x \in NodeSet(g) \ Range(p) : {p[Len(p)], x} \in EdgeSet(g)}}

Routes(g, a, b) == RoutesFrom(g, <<a>>, b)

RouteLength(g, p) == SumSeq([i \in 1..(Len(p) - 1) |-> g.edge[{p[i], p[i + 1]}].distance])

\* C27: a component with exactly two endpoints gives one trail, along a route
\* between the two endpoints of the least total distance: no route between
\* them is shorter, and length_miles is that least distance.
C27_SimpleShortest ==
    \A r \in Reports :
        LET g == Within(r.component)
        IN Cardinality(Ends(g)) = 2 =>
               /\ Len(r.out.trails) = 1
               /\ LET t == r.out.trails[1]
                      a == t.path[1]
                      b == t.path[Len(t.path)]
                  IN /\ {a, b} = Ends(g)
                     /\ t.path \in Routes(g, a, b)
                     /\ t.length_miles = RouteLength(g, t.path)
                     /\ t.length_miles = ShortestDistance(g, a, b)
                     /\ \A q \in Routes(g, a, b) : RouteLength(g, q) >= t.length_miles

\* two endpoints joined through a cycle whose two sides differ in distance
C27_Witness ==
    \E r \in Reports :
        LET g == Within(r.component)
        IN /\ Cardinality(Ends(g)) = 2
           /\ Len(r.out.trails) = 1
           /\ \E q \in Routes(g, r.out.trails[1].path[1],
                                r.out.trails[1].path[Len(r.out.trails[1].path)]) :
                  RouteLength(g, q) > r.out.trails[1].length_miles

\* C28: whatever the tags of the segments, a key named distance or way_id
\* included, the build completes, and every edge has the great-circle distance
\* of its two points as distance and the identity of a segment covering it as
\* way_id.
C28_TagsCannotAbort ==
    /\ pc # "raised"
    /\ Built =>
           \A e \in EdgeSet(G) :
               /\ \E u, v \in e :
                      /\ e = {u, v}
                      /\ G.edge[e].distance = Abs(nodes[u].lat - nodes[v].lat)
               /\ \E k \in 1..Len(trail_ways) :
                      /\ CoveredBy(e, trail_ways[k])
                      /\ G.edge[e].way_id = trail_ways[k].id

\* C29: the built graph has no self-loop, so the degree of a node is the
\* number of its distinct neighbours and the endpoints are the nodes with
\* exactly one neighbour, also when a segment references the same point at two
\* consecutive positions.
C29_NoSelfLoop ==
    Built =>
        /\ \A e \in EdgeSet(G) : Cardinality(e) = 2
        /\ \A n \in NodeSet(G) :
               Degree(G, n) = Cardinality({m \in NodeSet(G) \ {n} : {n, m} \in EdgeSet(G)})
        /\ find_endpoints(G) =
               {n \in NodeSet(G) :
                    Cardinality({m \in NodeSet(G) \ {n} : {n, m} \in EdgeSet(G)}) = 1}

\* C30: every trail runs between two distinct nodes of degree 1 of its
\* component, visits no node twice, and passes only through nodes of degree 2
\* or more; a trail of a component with more than two endpoints runs from the
\* lower endpoint identity to the higher.
C30_TrailShape ==
    \A r \in Reports : \A k \in 1..Len(r.out.trails) :
        LET g == Within(r.component)
            p == r.out.trails[k].path
        IN /\ Len(p) >= 2
           /\ p[1] # p[Len(p)]
           /\ IncidentEnds(g, p[1]) = 1
           /\ IncidentEnds(g, p[Len(p)]) = 1
           /\ \A i, j \in 1..Len(p) : i # j => p[i] # p[j]
           /\ \A i \in 2..(Len(p) - 1) : IncidentEnds(g, p[i]) >= 2
           /\ Cardinality(Ends(g)) > 2 => p[1] < p[Len(p)]

\* a component with more than two endpoints and a trail between two of them
\* through a junction
C30_Witness ==
    \E r \in Reports :
        /\ Cardinality(Ends(Within(r.component))) > 2
        /\ \E k \in 1..Len(r.out.trails) :
               \E i \in 2..(Len(r.out.trails[k].path) - 1) :
                   IncidentEnds(Within(r.component), r.out.trails[k].path[i]) > 2

====
